---- MODULE Spec2Model ----
(***************************************************************************)
(* Model of rust/compat-tests/c-to-rust/writer.c: a command-line driver    *)
(* that writes Exodus II fixture files through the libexodus call surface. *)
(*                                                                         *)
(* The program is sequential.  Its state is main's position, the locals of *)
(* main (test_case, filename, count), the locals of the generate_*         *)
(* function being executed (exoid, error, the position in its body), the   *)
(* two output streams, the exit code and the part of the filesystem the    *)
(* program touches.  `calls' records every libexodus call with the         *)
(* arguments passed.                                                       *)
(*                                                                         *)
(* `tz' is the offset of the process's time zone (the TZ environment) from *)
(* UTC in seconds; it does not change during a run.                        *)
(*                                                                         *)
(* Doubles are represented exactly as integers in tenths (0.5 is 5, 100.0  *)
(* is 1000): every double literal of the source is a multiple of 0.1.      *)
(***************************************************************************)
EXTENDS Integers, Sequences, FiniteSets, TLC

VARIABLES argv, pc, filename, count, allIdx, cur, ip, exoid, error,
          calls, failed, allFailed, out, err, exitCode, dirExists, mkdir,
          disk, open, nextId, now, tz

vars == <<argv, pc, filename, count, allIdx, cur, ip, exoid, error,
          calls, failed, allFailed, out, err, exitCode, dirExists, mkdir,
          disk, open, nextId, now, tz>>

(***************************************************************************)
(* Bounds of the model.                                                    *)
(***************************************************************************)
\* the clock read by time(NULL), in seconds since the start of the run,
\* advances by at most MaxTick seconds during the run
MaxTick == 1

(***************************************************************************)
(* Program constants.                                                      *)
(***************************************************************************)
OUTPUT_DIR == "output"
FILENAME_SIZE == 256
NULL == <<>>
\* what a library call returns: 0 or a positive handle on success, a negative
\* value on failure (the only test the source makes is exoid < 0)
LibResults == {0, -1}
\* the offsets from UTC, in seconds, of the time zones a run is made in
\* (EST, UTC, JST)
TZOffsets == {-18000, 0, 32400}
\* the character U+2713 (check mark) of the summary line; strings of the model
\* are ASCII, so the character is written by its code point
CHECK_MARK == "<U+2713>"
\* what the command run by system() has written to the standard error
\* stream, which it shares with the program.  The text is that of the shell
\* and of mkdir and depends on the shell, the mkdir and the locale of the
\* machine; the record of the stream keeps that the command wrote there and
\* where, not the text
COMMAND_OUTPUT == "<output of the command>"

(***************************************************************************)
(* Call records: the operation and its arguments, in the order of the      *)
(* parameters of the libexodus prototypes.                                 *)
(***************************************************************************)
put_init(title, nd, nn, ne, nb, nns, nss) ==
    [op |-> "ex_put_init",
     a |-> [title |-> title, num_dim |-> nd, num_nodes |-> nn,
            num_elem |-> ne, num_elem_blk |-> nb, num_node_sets |-> nns,
            num_side_sets |-> nss]]

put_coord(x, y, z) ==
    [op |-> "ex_put_coord", a |-> [x |-> x, y |-> y, z |-> z]]

put_coord_names(names) ==
    [op |-> "ex_put_coord_names", a |-> [names |-> names]]

put_block(id, type, nent, nnpe) ==
    [op |-> "ex_put_block",
     a |-> [blk_type |-> "EX_ELEM_BLOCK", blk_id |-> id,
            entry_descrip |-> type, num_entries |-> nent,
            num_nodes_per_entry |-> nnpe, num_edges_per_entry |-> 0,
            num_faces_per_entry |-> 0, num_attr_per_entry |-> 0]]

put_conn(id, conn) ==
    [op |-> "ex_put_conn",
     a |-> [blk_type |-> "EX_ELEM_BLOCK", blk_id |-> id, node_conn |-> conn]]

put_set_param(type, id, nent, ndf) ==
    [op |-> "ex_put_set_param",
     a |-> [set_type |-> type, set_id |-> id, num_entries |-> nent,
            num_dist_fact |-> ndf]]

put_set(type, id, entries, extra) ==
    [op |-> "ex_put_set",
     a |-> [set_type |-> type, set_id |-> id, set_entry_list |-> entries,
            set_extra_list |-> extra]]

put_variable_param(type, n) ==
    [op |-> "ex_put_variable_param", a |-> [obj_type |-> type, num_vars |-> n]]

put_variable_names(type, n, names) ==
    [op |-> "ex_put_variable_names",
     a |-> [obj_type |-> type, num_vars |-> n, var_names |-> names]]

put_time(step, value) ==
    [op |-> "ex_put_time", a |-> [time_step |-> step, time_value |-> value]]

put_var(step, type, index, id, nent, vals) ==
    [op |-> "ex_put_var",
     a |-> [time_step |-> step, var_type |-> type, var_index |-> index,
            obj_id |-> id, num_entries |-> nent, var_vals |-> vals]]

put_qa ==
    [op |-> "ex_put_qa",
     a |-> [num_qa_records |-> 1, code |-> "exodus-c-writer", version |-> "1.0"]]

close == [op |-> "ex_close", a |-> [none |-> 0]]

(***************************************************************************)
(* The bodies of the generate_* functions after ex_create: the library     *)
(* calls in program order with the arguments the source passes.            *)
(***************************************************************************)
generate_basic_2d ==
    << put_init("C-generated 2D mesh for Rust compatibility test",
                2, 4, 1, 1, 0, 0),
       put_coord(<<0, 10, 10, 0>>, <<0, 0, 10, 10>>, NULL),
       put_coord_names(<<"x", "y">>),
       put_block(1, "QUAD4", 1, 4),
       put_conn(1, <<1, 2, 3, 4>>),
       put_qa,
       close >>

\* generate_basic_3d with 0-based node indices in the connectivity
generate_basic_3d_zero_based ==
    << put_init("C-generated 3D mesh for Rust compatibility test",
                3, 8, 1, 1, 0, 0),
       put_coord(<<0, 10, 10, 0, 0, 10, 10, 0>>,
                 <<0, 0, 10, 10, 0, 0, 10, 10>>,
                 <<0, 0, 0, 0, 10, 10, 10, 10>>),
       put_coord_names(<<"x", "y", "z">>),
       put_block(1, "HEX8", 1, 8),
       put_conn(1, <<0, 1, 2, 3, 4, 5, 6, 7>>),
       put_qa,
       close >>

generate_basic_3d ==
    << put_init("C-generated 3D mesh for Rust compatibility test",
                3, 8, 1, 1, 0, 0),
       put_coord(<<0, 10, 10, 0, 0, 10, 10, 0>>,
                 <<0, 0, 10, 10, 0, 0, 10, 10>>,
                 <<0, 0, 0, 0, 10, 10, 10, 10>>),
       put_coord_names(<<"x", "y", "z">>),
       put_block(1, "HEX8", 1, 8),
       put_conn(1, <<1, 2, 3, 4, 5, 6, 7, 8>>),
       put_qa,
       close >>

\* with_variables_step with the nodal values written before the global ones
with_variables_step_swapped(step, num_nodes) ==
    LET time_value == step * 1
    IN  << put_time(step + 1, time_value),
           put_var(step + 1, "EX_NODAL", 1, 1, num_nodes,
                   << 1000 + step * 100, 1100 + step * 100,
                      1200 + step * 100, 1300 + step * 100 >>),
           put_var(step + 1, "EX_GLOBAL", 1, 1, 1, <<time_value>>) >>

\* the body of the time-step loop of generate_with_variables
\* (time_value = step * 0.1, nodal values 100.0 + step * 10.0, ...)
with_variables_step(step, num_nodes) ==
    LET time_value == step * 1
    IN  << put_time(step + 1, time_value),
           put_var(step + 1, "EX_GLOBAL", 1, 1, 1, <<time_value>>),
           put_var(step + 1, "EX_NODAL", 1, 1, num_nodes,
                   << 1000 + step * 100, 1100 + step * 100,
                      1200 + step * 100, 1300 + step * 100 >>) >>

\* for (int step = 0; step < 2; step++)
RECURSIVE with_variables_loop(_, _)
with_variables_loop(step, num_nodes) ==
    IF step < 2
    THEN with_variables_step(step, num_nodes)
         \o with_variables_loop(step + 1, num_nodes)
    ELSE << >>

generate_with_variables ==
    << put_init("C-generated mesh with variables", 2, 4, 1, 1, 0, 0),
       put_coord(<<0, 10, 10, 0>>, <<0, 0, 10, 10>>, NULL),
       put_coord_names(<<"x", "y">>),
       put_block(1, "QUAD4", 1, 4),
       put_conn(1, <<1, 2, 3, 4>>),
       put_variable_param("EX_GLOBAL", 1),
       put_variable_names("EX_GLOBAL", 1, <<"time_value">>),
       put_variable_param("EX_NODAL", 1),
       put_variable_names("EX_NODAL", 1, <<"temperature">>) >>
    \o with_variables_loop(0, 4)
    \o << put_qa, close >>

\* generate_multiple_blocks declaring the element count of the quad block only
generate_multiple_blocks_short ==
    << put_init("C-generated multi-block mesh", 2, 8, 2, 2, 0, 0),
       put_coord(<<0, 10, 20, 0, 10, 20, 5, 15>>,
                 <<0, 0, 0, 10, 10, 10, 15, 15>>, NULL),
       put_coord_names(<<"x", "y">>),
       put_block(10, "QUAD4", 2, 4),
       put_conn(10, <<1, 2, 5, 4, 2, 3, 6, 5>>),
       put_block(20, "TRI3", 1, 3),
       put_conn(20, <<4, 7, 8>>),
       put_qa,
       close >>

generate_multiple_blocks ==
    << put_init("C-generated multi-block mesh", 2, 8, 3, 2, 0, 0),
       put_coord(<<0, 10, 20, 0, 10, 20, 5, 15>>,
                 <<0, 0, 0, 10, 10, 10, 15, 15>>, NULL),
       put_coord_names(<<"x", "y">>),
       put_block(10, "QUAD4", 2, 4),
       put_conn(10, <<1, 2, 5, 4, 2, 3, 6, 5>>),
       put_block(20, "TRI3", 1, 3),
       put_conn(20, <<4, 7, 8>>),
       put_qa,
       close >>

generate_with_node_sets ==
    << put_init("C-generated mesh with node sets", 2, 4, 1, 1, 2, 0),
       put_coord(<<0, 10, 10, 0>>, <<0, 0, 10, 10>>, NULL),
       put_coord_names(<<"x", "y">>),
       put_block(1, "QUAD4", 1, 4),
       put_conn(1, <<1, 2, 3, 4>>),
       put_set_param("EX_NODE_SET", 100, 2, 0),
       put_set("EX_NODE_SET", 100, <<1, 2>>, NULL),
       put_set_param("EX_NODE_SET", 200, 2, 0),
       put_set("EX_NODE_SET", 200, <<2, 3>>, NULL),
       put_qa,
       close >>

\* generate_with_side_sets without its second side set
generate_with_side_sets_one ==
    << put_init("C-generated mesh with side sets", 2, 4, 1, 1, 0, 2),
       put_coord(<<0, 10, 10, 0>>, <<0, 0, 10, 10>>, NULL),
       put_coord_names(<<"x", "y">>),
       put_block(1, "QUAD4", 1, 4),
       put_conn(1, <<1, 2, 3, 4>>),
       put_set_param("EX_SIDE_SET", 100, 1, 0),
       put_set("EX_SIDE_SET", 100, <<1>>, <<1>>),
       put_qa,
       close >>

generate_with_side_sets ==
    << put_init("C-generated mesh with side sets", 2, 4, 1, 1, 0, 2),
       put_coord(<<0, 10, 10, 0>>, <<0, 0, 10, 10>>, NULL),
       put_coord_names(<<"x", "y">>),
       put_block(1, "QUAD4", 1, 4),
       put_conn(1, <<1, 2, 3, 4>>),
       put_set_param("EX_SIDE_SET", 100, 1, 0),
       put_set("EX_SIDE_SET", 100, <<1>>, <<1>>),
       put_set_param("EX_SIDE_SET", 200, 1, 0),
       put_set("EX_SIDE_SET", 200, <<1>>, <<2>>),
       put_qa,
       close >>

\* comprehensive_step computing the values from the 1-based step number
comprehensive_step_one_based(step, num_nodes) ==
    LET time_value == (step + 1) * 5
    IN  << put_time(step + 1, time_value),
           put_var(step + 1, "EX_NODAL", 1, 1, num_nodes,
                   << 1000 + (step + 1) * 100, 1100 + (step + 1) * 100,
                      1200 + (step + 1) * 100, 1300 + (step + 1) * 100,
                      1400 + (step + 1) * 100, 1500 + (step + 1) * 100 >>) >>

\* the body of the time-step loop of generate_comprehensive
\* (time_value = step * 0.5)
comprehensive_step(step, num_nodes) ==
    LET time_value == step * 5
    IN  << put_time(step + 1, time_value),
           put_var(step + 1, "EX_NODAL", 1, 1, num_nodes,
                   << 1000 + step * 100, 1100 + step * 100,
                      1200 + step * 100, 1300 + step * 100,
                      1400 + step * 100, 1500 + step * 100 >>) >>

RECURSIVE comprehensive_loop(_, _)
comprehensive_loop(step, num_nodes) ==
    IF step < 2
    THEN comprehensive_step(step, num_nodes)
         \o comprehensive_loop(step + 1, num_nodes)
    ELSE << >>

generate_comprehensive ==
    << put_init("C-generated comprehensive test mesh", 2, 6, 2, 1, 1, 1),
       put_coord(<<0, 10, 20, 0, 10, 20>>, <<0, 0, 0, 10, 10, 10>>, NULL),
       put_coord_names(<<"x", "y">>),
       put_block(1, "QUAD4", 2, 4),
       put_conn(1, <<1, 2, 5, 4, 2, 3, 6, 5>>),
       put_set_param("EX_NODE_SET", 100, 2, 0),
       put_set("EX_NODE_SET", 100, <<1, 4>>, NULL),
       put_set_param("EX_SIDE_SET", 200, 2, 0),
       put_set("EX_SIDE_SET", 200, <<1, 2>>, <<1, 1>>),
       put_variable_param("EX_NODAL", 1),
       put_variable_names("EX_NODAL", 1, <<"temperature">>) >>
    \o comprehensive_loop(0, 6)
    \o << put_qa, close >>

\* the generate_* function main calls for a test case
Body(name) ==
    CASE name = "basic_2d"        -> generate_basic_2d
      [] name = "basic_3d"        -> generate_basic_3d
      [] name = "with_variables"  -> generate_with_variables
      [] name = "multiple_blocks" -> generate_multiple_blocks
      [] name = "with_node_sets"  -> generate_with_node_sets
      [] name = "with_side_sets"  -> generate_with_side_sets
      [] name = "comprehensive"   -> generate_comprehensive

(***************************************************************************)
(* main: argument handling, file names, dispatch.                          *)
(***************************************************************************)
\* the "all" branch with two neighbouring test cases exchanged
AllOrder_exchanged ==
    << "basic_2d", "basic_3d", "multiple_blocks", "with_variables",
       "with_node_sets", "with_side_sets", "comprehensive" >>

\* the test cases in the order of the "all" branch of main
AllOrder ==
    << "basic_2d", "basic_3d", "with_variables", "multiple_blocks",
       "with_node_sets", "with_side_sets", "comprehensive" >>

\* the format strings with the one of with_side_sets copied from its neighbour
FileFmt_copied ==
    [ basic_2d        |-> "%s/c_basic_2d.exo",
      basic_3d        |-> "%s/c_basic_3d.exo",
      with_variables  |-> "%s/c_with_variables.exo",
      multiple_blocks |-> "%s/c_multiple_blocks.exo",
      with_node_sets  |-> "%s/c_with_node_sets.exo",
      with_side_sets  |-> "%s/c_with_node_sets.exo",
      comprehensive   |-> "%s/c_comprehensive.exo" ]

\* the format strings main passes to snprintf, per test case
FileFmt ==
    [ basic_2d        |-> "%s/c_basic_2d.exo",
      basic_3d        |-> "%s/c_basic_3d.exo",
      with_variables  |-> "%s/c_with_variables.exo",
      multiple_blocks |-> "%s/c_multiple_blocks.exo",
      with_node_sets  |-> "%s/c_with_node_sets.exo",
      with_side_sets  |-> "%s/c_with_side_sets.exo",
      comprehensive   |-> "%s/c_comprehensive.exo" ]

\* snprintf(buf, size, fmt, arg) for a format that starts with one %s:
\* the expansion, cut to size - 1 characters
snprintf(size, fmt, arg) ==
    LET full == IF Len(fmt) >= 2 /\ SubSeq(fmt, 1, 2) = "%s"
                THEN arg \o SubSeq(fmt, 3, Len(fmt))
                ELSE fmt
    IN  IF Len(full) > size - 1 THEN SubSeq(full, 1, size - 1) ELSE full

\* strncmp(a, b, strlen(b)) == 0: b is a prefix of a
streq_prefix(a, b) == Len(a) >= Len(b) /\ SubSeq(a, 1, Len(b)) = b

\* strcmp(a, b) == 0
streq(a, b) == a = b

\* the chain without its final else: any other name runs the "all" branch
Branch_default_all(test_case) ==
    IF streq(test_case, "basic_2d") THEN "basic_2d"
    ELSE IF streq(test_case, "basic_3d") THEN "basic_3d"
    ELSE IF streq(test_case, "with_variables") THEN "with_variables"
    ELSE IF streq(test_case, "multiple_blocks") THEN "multiple_blocks"
    ELSE IF streq(test_case, "with_node_sets") THEN "with_node_sets"
    ELSE IF streq(test_case, "with_side_sets") THEN "with_side_sets"
    ELSE IF streq(test_case, "comprehensive") THEN "comprehensive"
    ELSE "all"

\* the branch of main's if / else-if chain taken for test_case
Branch(test_case) ==
    IF streq(test_case, "basic_2d") THEN "basic_2d"
    ELSE IF streq(test_case, "basic_3d") THEN "basic_3d"
    ELSE IF streq(test_case, "with_variables") THEN "with_variables"
    ELSE IF streq(test_case, "multiple_blocks") THEN "multiple_blocks"
    ELSE IF streq(test_case, "with_node_sets") THEN "with_node_sets"
    ELSE IF streq(test_case, "with_side_sets") THEN "with_side_sets"
    ELSE IF streq(test_case, "comprehensive") THEN "comprehensive"
    ELSE IF streq(test_case, "all") THEN "all"
    ELSE "unknown"

\* the usage text main prints when argc < 2
Usage(prog) ==
    << "Usage: " \o prog \o " <test_case>\n",
       "Test cases:\n",
       "  basic_2d          - Simple 2D quad mesh\n",
       "  basic_3d          - Simple 3D hex mesh\n",
       "  with_variables    - Mesh with time-dependent variables\n",
       "  multiple_blocks   - Mesh with multiple element blocks\n",
       "  with_node_sets    - Mesh with node sets\n",
       "  with_side_sets    - Mesh with side sets\n",
       "  comprehensive     - Comprehensive test with all features\n",
       "  all               - Generate all test cases\n" >>

\* printf("%d", n) for n >= 0
RECURSIVE fmt_d(_)
fmt_d(n) ==
    LET digit == <<"0", "1", "2", "3", "4", "5", "6", "7", "8", "9">>
    IN  IF n < 10 THEN digit[n + 1]
        ELSE fmt_d(n \div 10) \o digit[(n % 10) + 1]

\* localtime(&now): the seconds since the epoch shifted by the offset of the
\* process's time zone
localtime(t, utc_offset) == t + utc_offset

\* strftime(date_str, ..., "%Y-%m-%d", localtime(&now)): the local day, as
\* the number of days since 1970-01-01 (negative before it)
date_str(t, utc_offset) == localtime(t, utc_offset) \div 86400

\* strftime(time_str, ..., "%H:%M:%S", localtime(&now)): the local time of day
time_str(t, utc_offset) ==
    LET s == localtime(t, utc_offset) % 86400
    IN  << s \div 3600, (s % 3600) \div 60, s % 60 >>

\* if (exoid == 0) after ex_create
create_failed_zero(e) == e = 0

\* if (exoid < 0) after ex_create
create_failed(e) == e < 0

\* if (argc < 2)
missing_argument(argc) == argc < 2

argc == Len(argv)
test_case == argv[2]

(***************************************************************************)
(* Initial states: the command line, the filesystem before the run (the    *)
(* output directory and the files of an earlier "all" run may exist).      *)
(***************************************************************************)
CommandLines ==
    { << "./writer" >> }
    \cup { << "./writer", n >> :
             n \in { AllOrder[i] : i \in 1..Len(AllOrder) }
                   \cup { "all", "bogus", "", "basic_2d.exo", "ALL" } }
    \cup { << "./writer", "basic_3d", "extra" >> }

PathOf(name) == snprintf(FILENAME_SIZE, FileFmt[name], OUTPUT_DIR)

\* the disk is a set of <<path, creator>> pairs; creator 0 is an earlier run
EarlierRun == { << PathOf(AllOrder[i]), 0 >> : i \in 1..Len(AllOrder) }

Init ==
    /\ argv \in CommandLines
    /\ pc = "main"
    /\ filename = ""
    /\ count = 0
    /\ allIdx = 0
    /\ cur = "none"
    /\ ip = 0
    /\ exoid = 0
    /\ error = 0
    /\ calls = << >>
    /\ failed = FALSE
    /\ allFailed = FALSE
    /\ out = << >>
    /\ err = << >>
    /\ exitCode = -1
    /\ dirExists \in BOOLEAN
    /\ mkdir = "not run"
    /\ disk \in (IF dirExists THEN { {}, EarlierRun } ELSE { {} })
    /\ open = {}
    /\ nextId = 1
    /\ now = 0
    /\ tz \in TZOffsets

(***************************************************************************)
(* main, up to the call of a generate_* function.                          *)
(***************************************************************************)
\* if (argc < 2) { usage; return 1; }
MainUsage ==
    /\ pc = "main"
    /\ missing_argument(argc)
    /\ err' = err \o Usage(argv[1])
    /\ exitCode' = 1
    /\ pc' = "exited"
    /\ UNCHANGED <<argv, tz, filename, count, allIdx, cur, ip, exoid, error,
                   calls, failed, allFailed, out, dirExists, mkdir, disk, open,
                   nextId, now>>

\* system("mkdir -p " OUTPUT_DIR): the result is not looked at.  With -p an
\* existing directory is left as it is.  A missing directory is created, or
\* is still missing afterwards when the command fails (mkdir cannot create
\* it, the shell finds no mkdir, no shell could be started).  Whatever
\* becomes of the directory, the command may write to the standard error
\* stream or write nothing: a failure can be silent, and a shell can
\* complain and still run mkdir.
Mkdir ==
    /\ pc = "main"
    /\ ~missing_argument(argc)
    /\ \/ /\ dirExists
          /\ mkdir' = "no effect"
          /\ UNCHANGED dirExists
       \/ /\ ~dirExists
          /\ dirExists' = TRUE
          /\ mkdir' = "created"
       \/ /\ ~dirExists
          /\ mkdir' = "failed"
          /\ UNCHANGED dirExists
    /\ \/ UNCHANGED err
       \/ err' = Append(err, COMMAND_OUTPUT)
    /\ pc' = "dispatch"
    /\ UNCHANGED <<argv, tz, filename, count, allIdx, cur, ip, exoid, error,
                   calls, failed, allFailed, out, exitCode, disk, open,
                   nextId, now>>

\* one of the seven named branches: snprintf, then the generate_* call
DispatchOne ==
    /\ pc = "dispatch"
    /\ Branch(test_case) \notin {"all", "unknown"}
    /\ filename' = snprintf(FILENAME_SIZE, FileFmt[Branch(test_case)],
                            OUTPUT_DIR)
    /\ cur' = Branch(test_case)
    /\ ip' = 0
    /\ pc' = "gen"
    /\ UNCHANGED <<argv, tz, count, allIdx, exoid, error, calls, failed, allFailed, out,
                   err, exitCode, dirExists, mkdir, disk, open, nextId,
                   now>>

\* the "all" branch: the banner, then the first test case
DispatchAll ==
    /\ pc = "dispatch"
    /\ Branch(test_case) = "all"
    /\ out' = Append(out, "Generating all C test files...\n\n")
    /\ allIdx' = 1
    /\ filename' = snprintf(FILENAME_SIZE, FileFmt[AllOrder[1]], OUTPUT_DIR)
    /\ cur' = AllOrder[1]
    /\ ip' = 0
    /\ pc' = "gen"
    /\ UNCHANGED <<argv, tz, count, exoid, error, calls, failed, allFailed, err, exitCode,
                   dirExists, mkdir, disk, open, nextId, now>>

\* the final else: Unknown test case, return 1
DispatchUnknown ==
    /\ pc = "dispatch"
    /\ Branch(test_case) = "unknown"
    /\ err' = Append(err, "Unknown test case: " \o test_case \o "\n")
    /\ exitCode' = 1
    /\ pc' = "exited"
    /\ UNCHANGED <<argv, tz, filename, count, allIdx, cur, ip, exoid, error,
                   calls, failed, allFailed, out, dirExists, mkdir, disk, open,
                   nextId, now>>

(***************************************************************************)
(* The generate_* functions.                                               *)
(***************************************************************************)
\* exoid = ex_create(filename, EX_CLOBBER, ...); if (exoid < 0) { ...; exit(1); }
\* The library can create the file only inside an existing directory; a
\* created file replaces the one of the same path (EX_CLOBBER).
ExCreate ==
    /\ pc = "gen"
    /\ ip = 0
    /\ \E ok \in (IF dirExists THEN BOOLEAN ELSE {FALSE}) :
         LET e == IF ok THEN nextId ELSE -1
             c == [op |-> "ex_create", exoid |-> e, fn |-> cur,
                   a |-> [path |-> filename, cmode |-> "EX_CLOBBER",
                          comp_ws |-> 0, io_ws |-> 8]]
         IN  /\ exoid' = e
             /\ calls' = Append(calls, c)
             /\ nextId' = IF ok THEN nextId + 1 ELSE nextId
             /\ disk' = IF ok
                        THEN { d \in disk : d[1] # filename }
                             \cup { << filename, e >> }
                        ELSE disk
             /\ open' = IF ok THEN open \cup {e} ELSE open
             /\ IF create_failed(e)
                THEN /\ err' = Append(err, "Error: Could not create file "
                                           \o filename \o "\n")
                     /\ exitCode' = 1
                     /\ pc' = "exited"
                     /\ ip' = ip
                ELSE /\ ip' = 1
                     /\ UNCHANGED <<err, exitCode, pc>>
    /\ allFailed' = TRUE
    /\ UNCHANGED <<argv, tz, filename, count, allIdx, cur, error, failed, out,
                   dirExists, mkdir, now>>

\* the next statement of the running generate_* function is a call of opname
AtCall(opname) ==
    /\ pc = "gen"
    /\ ip \in 1..Len(Body(cur))
    /\ Body(cur)[ip].op = opname

\* the statement after a library call, with an early return on a failed call:
\* if (error < 0) return;
next_ip_gated(i, rc, last) == IF rc < 0 THEN last + 1 ELSE i + 1

\* the statement after a library call that returned rc: the next one of the
\* body, as no result is tested
next_ip(i, rc, last) == i + 1

\* a library call whose result is dropped or stored in `error' and never read
LibCall(opname, extra) ==
    /\ AtCall(opname)
    /\ \E rc \in LibResults :
         /\ calls' = Append(calls, [op |-> opname, exoid |-> exoid,
                                    fn |-> cur,
                                    a |-> Body(cur)[ip].a @@ extra])
         /\ failed' = (failed \/ rc < 0)
         /\ allFailed' = (allFailed /\ rc < 0)
         /\ error' = IF opname \in {"ex_put_init", "ex_put_block"}
                     THEN rc ELSE error
         /\ ip' = next_ip(ip, rc, Len(Body(cur)))
    /\ UNCHANGED <<argv, tz, pc, filename, count, allIdx, cur, exoid, out, err,
                   exitCode, dirExists, mkdir, disk, nextId>>

NoExtra == [x \in {} |-> 0]

ExPutInit == LibCall("ex_put_init", NoExtra) /\ UNCHANGED <<open, now>>

ExPutCoord == LibCall("ex_put_coord", NoExtra) /\ UNCHANGED <<open, now>>

ExPutCoordNames ==
    LibCall("ex_put_coord_names", NoExtra) /\ UNCHANGED <<open, now>>

ExPutBlock == LibCall("ex_put_block", NoExtra) /\ UNCHANGED <<open, now>>

ExPutConn == LibCall("ex_put_conn", NoExtra) /\ UNCHANGED <<open, now>>

ExPutSetParam ==
    LibCall("ex_put_set_param", NoExtra) /\ UNCHANGED <<open, now>>

ExPutSet == LibCall("ex_put_set", NoExtra) /\ UNCHANGED <<open, now>>

ExPutVariableParam ==
    LibCall("ex_put_variable_param", NoExtra) /\ UNCHANGED <<open, now>>

ExPutVariableNames ==
    LibCall("ex_put_variable_names", NoExtra) /\ UNCHANGED <<open, now>>

ExPutTime == LibCall("ex_put_time", NoExtra) /\ UNCHANGED <<open, now>>

ExPutVar == LibCall("ex_put_var", NoExtra) /\ UNCHANGED <<open, now>>

\* time(NULL), localtime, strftime twice, then ex_put_qa
ExPutQa ==
    \E t \in now..MaxTick :
        /\ now' = t
        /\ LibCall("ex_put_qa", [date |-> date_str(t, tz),
                                  time |-> time_str(t, tz)])
        /\ UNCHANGED open

\* ex_close(exoid)
ExClose ==
    /\ LibCall("ex_close", NoExtra)
    /\ open' = open \ {exoid}
    /\ UNCHANGED now

\* printf("Generated: %s\n", filename) and the return to main
GenReturn ==
    /\ pc = "gen"
    /\ ip = Len(Body(cur)) + 1
    /\ out' = Append(out, "Generated: " \o filename \o "\n")
    /\ pc' = IF allIdx = 0 THEN "return0" ELSE "all_next"
    /\ UNCHANGED <<argv, tz, filename, count, allIdx, cur, ip, exoid, error,
                   calls, failed, allFailed, err, exitCode, dirExists, mkdir, disk,
                   open, nextId, now>>

(***************************************************************************)
(* main, after a generate_* function has returned.                         *)
(***************************************************************************)
\* count++ and the snprintf of the next test case of the "all" branch
AllNext ==
    /\ pc = "all_next"
    /\ allIdx < Len(AllOrder)
    /\ count' = count + 1
    /\ allIdx' = allIdx + 1
    /\ filename' = snprintf(FILENAME_SIZE, FileFmt[AllOrder[allIdx + 1]],
                            OUTPUT_DIR)
    /\ cur' = AllOrder[allIdx + 1]
    /\ ip' = 0
    /\ pc' = "gen"
    /\ UNCHANGED <<argv, tz, exoid, error, calls, failed, allFailed, out, err, exitCode,
                   dirExists, mkdir, disk, open, nextId, now>>

\* the last count++ and the summary line of the "all" branch
AllDone ==
    /\ pc = "all_next"
    /\ allIdx = Len(AllOrder)
    /\ count' = count + 1
    /\ out' = Append(out, "\n" \o CHECK_MARK \o " All " \o fmt_d(count + 1)
                          \o " test files generated successfully!\n")
    /\ pc' = "return0"
    /\ UNCHANGED <<argv, tz, filename, allIdx, cur, ip, exoid, error, calls,
                   failed, allFailed, err, exitCode, dirExists, mkdir, disk, open,
                   nextId, now>>

\* return 0
MainReturn ==
    /\ pc = "return0"
    /\ exitCode' = 0
    /\ pc' = "exited"
    /\ UNCHANGED <<argv, tz, filename, count, allIdx, cur, ip, exoid, error,
                   calls, failed, allFailed, out, err, dirExists, mkdir, disk, open,
                   nextId, now>>

Next ==
    \/ MainUsage
    \/ Mkdir
    \/ DispatchOne
    \/ DispatchAll
    \/ DispatchUnknown
    \/ ExCreate
    \/ ExPutInit
    \/ ExPutCoord
    \/ ExPutCoordNames
    \/ ExPutBlock
    \/ ExPutConn
    \/ ExPutSetParam
    \/ ExPutSet
    \/ ExPutVariableParam
    \/ ExPutVariableNames
    \/ ExPutTime
    \/ ExPutVar
    \/ ExPutQa
    \/ ExClose
    \/ GenReturn
    \/ AllNext
    \/ AllDone
    \/ MainReturn

Spec == Init /\ [][Next]_vars

TypeOK ==
    /\ pc \in {"main", "dispatch", "gen", "all_next", "return0", "exited"}
    /\ exitCode \in {-1, 0, 1}
    /\ count \in 0..Len(AllOrder)

(***************************************************************************)
(* Reading the record of library calls.                                    *)
(***************************************************************************)
\* the handles ex_create has returned (a failed create returns a negative one)
Handles == { calls[i].exoid : i \in DOMAIN calls }
Files == { e \in Handles : e > 0 }

\* the calls made on handle e, in the order they were issued
CallsOf(e) == SelectSeq(calls, LAMBDA c : c.exoid = e)

\* the calls of one operation among the calls q of a handle
Ops(q, opname) == SelectSeq(q, LAMBDA c : c.op = opname)

\* the calls of one operation made on handle e
OpsOf(e, opname) == Ops(CallsOf(e), opname)

\* the generate_* function has issued ex_close on handle e
Closed(e) ==
    \E i \in DOMAIN calls : calls[i].exoid = e /\ calls[i].op = "ex_close"

\* the arguments the handle of the calls q was initialised with
InitOf(q) == Ops(q, "ex_put_init")[1].a

RECURSIVE SumSeq(_)
SumSeq(q) == IF q = << >> THEN 0 ELSE Head(q) + SumSeq(Tail(q))

\* the phase of the fixed write order an operation belongs to; the phase of
\* the sets is that of the node sets, the side sets follow in the next one
PhaseOfOp ==
    [ ex_create |-> 0, ex_put_init |-> 1, ex_put_coord |-> 2,
      ex_put_coord_names |-> 3, ex_put_block |-> 4, ex_put_conn |-> 4,
      ex_put_set_param |-> 5, ex_put_set |-> 5,
      ex_put_variable_param |-> 7, ex_put_variable_names |-> 7,
      ex_put_time |-> 8, ex_put_var |-> 8, ex_put_qa |-> 9, ex_close |-> 10 ]

\* the phase of the fixed write order a call belongs to
Phase(c) ==
    LET p == PhaseOfOp[c.op]
    IN  IF p = 5 /\ c.a.set_type # "EX_NODE_SET" THEN 6 ELSE p

\* the place of a time-step call inside the time-step phase: steps ascending,
\* inside a step the time value, then global values, then nodal values
StepKey(c) ==
    3 * c.a.time_step
    + (IF c.op = "ex_put_time" THEN 0
       ELSE IF c.a.var_type = "EX_GLOBAL" THEN 1 ELSE 2)

\* the place of a variable declaration: global before nodal, count before names
DeclKey(c) ==
    (IF c.a.obj_type = "EX_GLOBAL" THEN 0 ELSE 2)
    + (IF c.op = "ex_put_variable_param" THEN 0 ELSE 1)

\* q[i] is a definition call (defop) and q[i+1], if issued, is the matching
\* data call (dataop) for the same object; every data call has its definition
\* call right before it
Paired(q, defop, dataop, SameObject(_, _)) ==
    \A i \in DOMAIN q :
        /\ q[i].op = defop /\ i < Len(q)
              => q[i + 1].op = dataop /\ SameObject(q[i], q[i + 1])
        /\ q[i].op = dataop
              => i > 1 /\ q[i - 1].op = defop /\ SameObject(q[i - 1], q[i])

SameBlock(c, d) == c.a.blk_id = d.a.blk_id
SameSet(c, d) == c.a.set_type = d.a.set_type /\ c.a.set_id = d.a.set_id
SameDecl(c, d) == c.a.obj_type = d.a.obj_type

\* Successive calls suffice for the order between any two calls: the phase
\* never decreases from a call to the next, and inside a phase the block ids,
\* the declarations and the time-step calls increase from one to the next.
WriteOrder(q) ==
    LET ph     == [i \in DOMAIN q |-> Phase(q[i])]
        blocks == Ops(q, "ex_put_block")
        decls  == SelectSeq(q, LAMBDA c : PhaseOfOp[c.op] = 7)
        steps  == SelectSeq(q, LAMBDA c : PhaseOfOp[c.op] = 8)
    IN
    /\ q[1].op = "ex_create"
    /\ \A i \in 1..(Len(q) - 1) :
          /\ ph[i] <= ph[i + 1]
          /\ ph[i] \in {0, 1, 2, 3, 9, 10} => ph[i] < ph[i + 1]
    /\ \A i \in 1..(Len(blocks) - 1) :
          blocks[i].a.blk_id < blocks[i + 1].a.blk_id
    /\ \A i \in 1..(Len(decls) - 1) : DeclKey(decls[i]) < DeclKey(decls[i + 1])
    /\ \A i \in 1..(Len(steps) - 1) : StepKey(steps[i]) < StepKey(steps[i + 1])
    /\ Paired(q, "ex_put_block", "ex_put_conn", SameBlock)
    /\ Paired(q, "ex_put_set_param", "ex_put_set", SameSet)
    /\ Paired(q, "ex_put_variable_param", "ex_put_variable_names", SameDecl)
    /\ \A i \in DOMAIN q :
          q[i].op = "ex_put_var"
              => \E k \in 1..(i - 1) :
                    /\ q[k].op = "ex_put_time"
                    /\ q[k].a.time_step = q[i].a.time_step
    /\ \A i \in DOMAIN q : q[i].op = "ex_close" => i = Len(q)

\* the phases every scenario goes through, present once the file is closed
Complete(q) ==
    \A opname \in {"ex_create", "ex_put_init", "ex_put_coord",
                   "ex_put_coord_names", "ex_put_block", "ex_put_qa",
                   "ex_close"} :
        \E i \in DOMAIN q : q[i].op = opname

\* the generate_* function running on handle e has returned to main
Returned(e) ==
    \E i \in DOMAIN calls :
        /\ calls[i].exoid = e
        /\ calls[i].op = "ex_create"
        /\ LET m == "Generated: " \o calls[i].a.path \o "\n"
           IN  \E k \in DOMAIN out : out[k] = m

(***************************************************************************)
(* C1: in every scenario the library calls issued after a successful       *)
(* create follow the fixed write order: create, init, coordinates,         *)
(* coordinate names, each block's definition then its connectivity (block  *)
(* ids ascending), each node set's parameters then its members, each side  *)
(* set's parameters then its members, variable counts and names (global    *)
(* before nodal), per time step (ascending) the time value, the global     *)
(* values, the nodal values, then the QA record, then close; no call of a  *)
(* later phase precedes a call of an earlier phase, close is the last      *)
(* call, and a generate function returns only after close.                 *)
(***************************************************************************)
C1_WriteOrder ==
    \A e \in Files :
        LET q == CallsOf(e)
        IN  /\ WriteOrder(q)
            /\ Closed(e) => Complete(q)
            /\ Returned(e) => Closed(e)

\* all seven scenarios have been written and closed, in one run
C1_Witness ==
    /\ pc = "exited"
    /\ exitCode = 0
    /\ \A i \in 1..7 :
          \E e \in Files : Closed(e) /\ CallsOf(e)[1].fn = AllOrder[i]
    /\ \E e \in Files : Len(OpsOf(e, "ex_put_var")) = 4

(***************************************************************************)
(* The scenario table of the specification: dimension, nodes, elements,    *)
(* the blocks as <<topology, element count>>, node sets, side sets, global *)
(* and nodal variables, time steps.                                        *)
(***************************************************************************)
Row(dim, nodes, elems, blocks, nsets, ssets, glo, nod, steps) ==
    [dim |-> dim, nodes |-> nodes, elems |-> elems, blocks |-> blocks,
     nsets |-> nsets, ssets |-> ssets, glo |-> glo, nod |-> nod,
     steps |-> steps]

ScenarioTable ==
    [ basic_2d        |-> Row(2, 4, 1, << <<"QUAD4", 1>> >>, 0, 0, 0, 0, 0),
      basic_3d        |-> Row(3, 8, 1, << <<"HEX8", 1>> >>, 0, 0, 0, 0, 0),
      with_variables  |-> Row(2, 4, 1, << <<"QUAD4", 1>> >>, 0, 0, 1, 1, 2),
      multiple_blocks |-> Row(2, 8, 3, << <<"QUAD4", 2>>, <<"TRI3", 1>> >>,
                              0, 0, 0, 0, 0),
      with_node_sets  |-> Row(2, 4, 1, << <<"QUAD4", 1>> >>, 2, 0, 0, 0, 0),
      with_side_sets  |-> Row(2, 4, 1, << <<"QUAD4", 1>> >>, 0, 2, 0, 0, 0),
      comprehensive   |-> Row(2, 6, 2, << <<"QUAD4", 2>> >>, 1, 1, 0, 1, 2) ]

\* the scenario the handle of the calls q was created for
ScenarioOf(q) == q[1].fn

\* the blocks written among the calls q as <<topology, element count>>
BlocksOf(q) ==
    LET b == Ops(q, "ex_put_block")
    IN  [i \in DOMAIN b |-> << b[i].a.entry_descrip, b[i].a.num_entries >>]

\* the sets of one type declared among the calls q
SetsOf(q, type) ==
    SelectSeq(Ops(q, "ex_put_set_param"), LAMBDA c : c.a.set_type = type)

\* the number of variables of one type declared among the calls q
NumVarsOf(q, type) ==
    LET p == SelectSeq(Ops(q, "ex_put_variable_param"),
                       LAMBDA c : c.a.obj_type = type)
    IN  SumSeq([i \in DOMAIN p |-> p[i].a.num_vars])

\* the variable names of one type declared among the calls q
VarNamesOf(q, type) ==
    LET p == SelectSeq(Ops(q, "ex_put_variable_names"),
                       LAMBDA c : c.a.obj_type = type)
    IN  IF p = << >> THEN << >> ELSE p[1].a.var_names

(***************************************************************************)
(* C2: each scenario passes to init the dimension and the node, element,   *)
(* block, node-set and side-set counts of its table row, writes blocks of  *)
(* the listed topologies with the listed element counts, declares the      *)
(* listed variables and writes the listed number of time steps; basic_2d   *)
(* writes the coordinates (0,0),(1,0),(1,1),(0,1) and one QUAD4 block of   *)
(* connectivity (1,2,3,4).                                                 *)
(***************************************************************************)
C2_ScenarioTable ==
    \A e \in Files :
        LET q     == CallsOf(e)
            row   == ScenarioTable[ScenarioOf(q)]
            inits == Ops(q, "ex_put_init")
            times == Ops(q, "ex_put_time")
        IN  /\ inits # << >> =>
                 /\ inits[1].a.num_dim = row.dim
                 /\ inits[1].a.num_nodes = row.nodes
                 /\ inits[1].a.num_elem = row.elems
                 /\ inits[1].a.num_elem_blk = Len(row.blocks)
                 /\ inits[1].a.num_node_sets = row.nsets
                 /\ inits[1].a.num_side_sets = row.ssets
            /\ Closed(e) =>
                 /\ BlocksOf(q) = row.blocks
                 /\ NumVarsOf(q, "EX_GLOBAL") = row.glo
                 /\ NumVarsOf(q, "EX_NODAL") = row.nod
                 /\ Len(VarNamesOf(q, "EX_GLOBAL")) = row.glo
                 /\ Len(VarNamesOf(q, "EX_NODAL")) = row.nod
                 /\ Len(times) = row.steps
                 /\ { times[i].a.time_step : i \in DOMAIN times }
                    = 1..row.steps
            /\ Closed(e) /\ ScenarioOf(q) = "basic_2d" =>
                 /\ Ops(q, "ex_put_coord")[1].a.x = <<0, 10, 10, 0>>
                 /\ Ops(q, "ex_put_coord")[1].a.y = <<0, 0, 10, 10>>
                 /\ Len(Ops(q, "ex_put_conn")) = 1
                 /\ Ops(q, "ex_put_conn")[1].a.node_conn = <<1, 2, 3, 4>>
                 /\ Ops(q, "ex_put_block")[1].a.num_nodes_per_entry = 4

\* a run of "all" has closed the multi-block and the comprehensive file
C2_Witness ==
    /\ \E e \in Files :
          Closed(e) /\ ScenarioOf(CallsOf(e)) = "multiple_blocks"
    /\ \E e \in Files :
          Closed(e) /\ ScenarioOf(CallsOf(e)) = "comprehensive"
    /\ \E e \in Files :
          Closed(e) /\ ScenarioOf(CallsOf(e)) = "basic_2d"

(***************************************************************************)
(* C3: every coordinate axis array written has the length of the node      *)
(* count declared at init, every block's connectivity has element count    *)
(* times nodes-per-element entries, and every connectivity entry is a node *)
(* index in 1 .. node count.                                               *)
(***************************************************************************)
C3_CoordConnBounds ==
    \A e \in Files :
        LET q    == CallsOf(e)
            init == InitOf(q)
        IN  \A i \in DOMAIN q :
              /\ q[i].op = "ex_put_coord" =>
                    /\ Len(q[i].a.x) = init.num_nodes
                    /\ Len(q[i].a.y) = init.num_nodes
                    /\ init.num_dim = 3 => Len(q[i].a.z) = init.num_nodes
                    /\ init.num_dim = 2 => q[i].a.z = NULL
              /\ q[i].op = "ex_put_conn" =>
                    /\ Len(q[i].a.node_conn)
                          = q[i - 1].a.num_entries
                            * q[i - 1].a.num_nodes_per_entry
                    /\ \A k \in DOMAIN q[i].a.node_conn :
                          q[i].a.node_conn[k] \in 1..init.num_nodes

\* the connectivity of the TRI3 block, of the HEX8 block and of a two-element
\* QUAD4 block has been written
C3_Witness ==
    /\ \E i \in DOMAIN calls :
          calls[i].op = "ex_put_conn" /\ Len(calls[i].a.node_conn) = 3
    /\ \E i \in DOMAIN calls :
          calls[i].op = "ex_put_conn" /\ calls[i].fn = "basic_3d"
    /\ \E i \in DOMAIN calls :
          calls[i].op = "ex_put_conn" /\ calls[i].fn = "comprehensive"

(***************************************************************************)
(* C4: what is written before close agrees with the counts declared at     *)
(* init: the number of blocks, the sum of the blocks' element counts, the  *)
(* number of node sets and the number of side sets.                        *)
(***************************************************************************)
C4_DeclaredCounts ==
    \A e \in Files :
        LET q      == CallsOf(e)
            init   == InitOf(q)
            blocks == Ops(q, "ex_put_block")
        IN  Closed(e) =>
            /\ Len(blocks) = init.num_elem_blk
            /\ SumSeq([i \in DOMAIN blocks |-> blocks[i].a.num_entries])
                  = init.num_elem
            /\ Len(SetsOf(q, "EX_NODE_SET")) = init.num_node_sets
            /\ Len(SetsOf(q, "EX_SIDE_SET")) = init.num_side_sets
            /\ Len(Ops(q, "ex_put_set"))
                  = init.num_node_sets + init.num_side_sets

\* closed files with two blocks, with two node sets, with two side sets and
\* with one set of each kind
C4_Witness ==
    /\ \E e \in Files : Closed(e) /\ InitOf(CallsOf(e)).num_elem_blk = 2
    /\ \E e \in Files : Closed(e) /\ InitOf(CallsOf(e)).num_node_sets = 2
    /\ \E e \in Files : Closed(e) /\ InitOf(CallsOf(e)).num_side_sets = 2
    /\ \E e \in Files :
          Closed(e) /\ InitOf(CallsOf(e)).num_node_sets = 1
                    /\ InitOf(CallsOf(e)).num_side_sets = 1

(***************************************************************************)
(* C5: in with_variables and comprehensive, for every time step s in       *)
(* {1, 2}, the nodal temperature of node n is 100 + 10*(n-1) + 10*(s-1)    *)
(* with one value per declared node, the time value is 0.1*(s-1) in        *)
(* with_variables and 0.5*(s-1) in comprehensive, and the global variable  *)
(* of with_variables equals the time value of the same step.  Values are   *)
(* in tenths.                                                              *)
(***************************************************************************)
TimeIncrement(scenario) == IF scenario = "with_variables" THEN 1 ELSE 5

C5_VariableSeries ==
    \A e \in Files :
        LET q    == CallsOf(e)
            init == InitOf(q)
            scen == ScenarioOf(q)
        IN  \A i \in DOMAIN q :
              /\ q[i].op \in {"ex_put_time", "ex_put_var"} =>
                    /\ scen \in {"with_variables", "comprehensive"}
                    /\ q[i].a.time_step \in {1, 2}
              /\ q[i].op = "ex_put_time" =>
                    q[i].a.time_value
                       = TimeIncrement(scen) * (q[i].a.time_step - 1)
              /\ q[i].op = "ex_put_var" /\ q[i].a.var_type = "EX_NODAL" =>
                    /\ Len(q[i].a.var_vals) = init.num_nodes
                    /\ q[i].a.num_entries = init.num_nodes
                    /\ \A n \in DOMAIN q[i].a.var_vals :
                          q[i].a.var_vals[n]
                             = 1000 + 100 * (n - 1)
                                    + 100 * (q[i].a.time_step - 1)
              /\ q[i].op = "ex_put_var" /\ q[i].a.var_type = "EX_GLOBAL" =>
                    /\ scen = "with_variables"
                    /\ Len(q[i].a.var_vals) = 1
                    /\ q[i].a.num_entries = 1
                    /\ \E k \in DOMAIN q :
                          /\ q[k].op = "ex_put_time"
                          /\ q[k].a.time_step = q[i].a.time_step
                          /\ q[i].a.var_vals[1] = q[k].a.time_value

\* both steps of both series have been written
C5_Witness ==
    /\ \E e \in Files :
          /\ ScenarioOf(CallsOf(e)) = "with_variables"
          /\ Len(OpsOf(e, "ex_put_var")) = 4
    /\ \E e \in Files :
          /\ ScenarioOf(CallsOf(e)) = "comprehensive"
          /\ Len(OpsOf(e, "ex_put_var")) = 2

(***************************************************************************)
(* The command-line contract of the specification.                         *)
(***************************************************************************)
\* the scenarios in the order of the table
TableOrder ==
    << "basic_2d", "basic_3d", "with_variables", "multiple_blocks",
       "with_node_sets", "with_side_sets", "comprehensive" >>

\* the fixed enumeration of scenario names, with the catch-all selector
Enumeration == { TableOrder[i] : i \in DOMAIN TableOrder } \cup {"all"}

MissingArgument == Len(argv) < 2
UnrecognizedName == Len(argv) >= 2 /\ argv[2] \notin Enumeration

\* the ex_create calls of the run, in order
Creates == SelectSeq(calls, LAMBDA c : c.op = "ex_create")

\* some ex_create of the run has failed
CreateFailure == \E i \in DOMAIN Creates : Creates[i].exoid < 0

\* the files on disk that this run has created
CreatedFiles == { d \in disk : d[2] > 0 }

(***************************************************************************)
(* C6: the exit code is 1 exactly when the argument is missing, the name   *)
(* is not in the enumeration or a file creation has failed; in every other *)
(* run it is 0, whatever the other library calls return.                   *)
(***************************************************************************)
C6_ExitCode ==
    pc = "exited" =>
        /\ exitCode \in {0, 1}
        /\ exitCode = 1
              <=> (MissingArgument \/ UnrecognizedName \/ CreateFailure)

\* a run that ends with code 0 although a library call has failed
C6_Witness ==
    /\ pc = "exited"
    /\ exitCode = 0
    /\ failed
    /\ error < 0

\* what the program itself has written to the error stream
OwnErrors == SelectSeq(err, LAMBDA l : l # COMMAND_OUTPUT)

\* the program's own message m ends the error stream and is all the program
\* has written there
LastError(m) ==
    /\ err # << >>
    /\ err[Len(err)] = m
    /\ OwnErrors = << m >>

\* the usage error has been reported on the error stream
UsageReported ==
    /\ MissingArgument =>
          /\ Len(err) = 10
          /\ OwnErrors = err
          /\ err[1] = "Usage: " \o argv[1] \o " <test_case>\n"
    /\ UnrecognizedName =>
          LastError("Unknown test case: " \o argv[2] \o "\n")

(***************************************************************************)
(* C7 as stated: a usage error (missing argument or unrecognized name) is  *)
(* reported and ends the process with a non-zero code before any           *)
(* filesystem side effect: the output directory has not been created and   *)
(* no output file has been created.                                        *)
(***************************************************************************)
C7_Original ==
    pc = "exited" /\ (MissingArgument \/ UnrecognizedName) =>
        /\ exitCode = 1
        /\ UsageReported
        /\ mkdir # "created"
        /\ Creates = << >>
        /\ CreatedFiles = {}

(***************************************************************************)
(* C7 amended: a usage error is reported and ends the process with code 1  *)
(* without any library call and without any output file created.  A        *)
(* missing argument is detected before the output directory is touched; an *)
(* unrecognized name is detected only after mkdir -p has been run on the   *)
(* output directory.                                                       *)
(***************************************************************************)
C7_UsageError ==
    pc = "exited" /\ (MissingArgument \/ UnrecognizedName) =>
        /\ exitCode = 1
        /\ UsageReported
        /\ out = << >>
        /\ calls = << >>
        /\ CreatedFiles = {}
        /\ open = {}
        /\ MissingArgument => mkdir = "not run"
        /\ UnrecognizedName => mkdir # "not run"

\* an unrecognized name has ended the run after the directory was created
C7_Witness ==
    /\ pc = "exited"
    /\ UnrecognizedName
    /\ mkdir = "created"
    /\ dirExists

(***************************************************************************)
(* C8: when ex_create fails the process ends at once with code 1: no       *)
(* further library call, no confirmation for that file, no retry, under    *)
(* "all" no later scenario and no summary, and the files of the scenarios  *)
(* completed earlier in the run stay as they were closed.                  *)
(***************************************************************************)
C8_CreateFailure ==
    \A i \in DOMAIN calls :
        calls[i].op = "ex_create" /\ calls[i].exoid < 0 =>
            /\ i = Len(calls)
            /\ pc = "exited"
            /\ exitCode = 1
            /\ LastError("Error: Could not create file " \o calls[i].a.path
                         \o "\n")
            /\ \A j \in 1..(i - 1) :
                  ~(calls[j].op = "ex_create"
                    /\ calls[j].a.path = calls[i].a.path)
            /\ \A k \in DOMAIN out :
                  \/ out[k] = "Generating all C test files...\n\n"
                  \/ \E e \in Files :
                        /\ Closed(e)
                        /\ out[k] = "Generated: " \o CallsOf(e)[1].a.path
                                    \o "\n"
            /\ Len(SelectSeq(out, LAMBDA m :
                                m # "Generating all C test files...\n\n"))
                  = Cardinality(Files)
            /\ open = {}
            /\ \A e \in Files :
                  /\ Closed(e)
                  /\ << CallsOf(e)[1].a.path, e >> \in disk

\* "all" fails on its last file after six files have been completed
C8_Witness ==
    /\ Len(argv) >= 2
    /\ argv[2] = "all"
    /\ CreateFailure
    /\ Creates[Len(Creates)].fn = "comprehensive"
    /\ Cardinality(Files) = 6
    /\ Cardinality(CreatedFiles) = 6

(***************************************************************************)
(* C9: under "all" with every creation succeeding, the seven scenarios of  *)
(* the table run once each in the table's order and leave one file each at *)
(* pairwise distinct paths; at most one file is open at any time and each  *)
(* file is closed before the next one is created.                          *)
(***************************************************************************)
C9_AllSequential ==
    /\ Cardinality(open) <= 1
    /\ \A i \in DOMAIN calls :
          calls[i].op = "ex_create" =>
              \A e \in { calls[j].exoid : j \in 1..(i - 1) } :
                  \E k \in 1..(i - 1) :
                      /\ calls[k].op = "ex_close"
                      /\ calls[k].exoid = e
    /\ Len(argv) >= 2 /\ argv[2] = "all" =>
          LET created == Creates
          IN  /\ Len(created) <= Len(TableOrder)
              /\ \A i \in DOMAIN created : created[i].fn = TableOrder[i]
              /\ \A i, j \in DOMAIN created :
                    i # j => created[i].a.path # created[j].a.path
              /\ pc = "exited" /\ exitCode = 0 =>
                    /\ Len(created) = Len(TableOrder)
                    /\ count = Len(TableOrder)
                    /\ Cardinality(CreatedFiles) = Len(TableOrder)
                    /\ { d[1] : d \in CreatedFiles }
                          = { created[i].a.path : i \in DOMAIN created }
                    /\ \A e \in Files : Closed(e)

\* a complete run of "all"
C9_Witness ==
    /\ pc = "exited"
    /\ exitCode = 0
    /\ Len(argv) >= 2
    /\ argv[2] = "all"
    /\ Len(Creates) = 7

(***************************************************************************)
(* C10 as stated: the file of a scenario is <scenario>.<ext> inside the    *)
(* output directory.                                                       *)
(***************************************************************************)
C10_Original ==
    LET created == Creates
    IN  \A i \in DOMAIN created :
            created[i].a.path = "output" \o "/" \o created[i].fn \o ".exo"

(***************************************************************************)
(* C10 amended: the file of a scenario is c_<scenario>.exo inside the      *)
(* output directory, whether the scenario is selected by name or through   *)
(* "all"; the path depends on the scenario only, and a successful create   *)
(* replaces the file an earlier run left at that path.                     *)
(***************************************************************************)
C10_FileName ==
    LET created == Creates
    IN  \A i \in DOMAIN created :
          LET c == created[i]
          IN  /\ c.fn \in Enumeration \ {"all"}
              /\ argv[2] # "all" => c.fn = argv[2]
              /\ c.a.path = "output" \o "/c_" \o c.fn \o ".exo"
              /\ c.a.cmode = "EX_CLOBBER"
              /\ c.exoid > 0 =>
                    { d \in disk : d[1] = c.a.path }
                       = { << c.a.path, c.exoid >> }

\* a scenario selected by name has replaced its file of an earlier run
C10_Witness ==
    /\ Len(argv) >= 2
    /\ argv[2] = "with_node_sets"
    /\ \E d \in disk : d[2] = 0
    /\ \E d \in disk : d[2] > 0 /\ d[1] = "output/c_with_node_sets.exo"

(***************************************************************************)
(* The call sequence the specification's write order and table give for a  *)
(* scenario: the names of the operations from create to close.             *)
(***************************************************************************)
RECURSIVE Repeat(_, _)
Repeat(q, n) == IF n = 0 THEN << >> ELSE q \o Repeat(q, n - 1)

ExpectedOps(row) ==
    << "ex_create", "ex_put_init", "ex_put_coord", "ex_put_coord_names" >>
    \o Repeat(<< "ex_put_block", "ex_put_conn" >>, Len(row.blocks))
    \o Repeat(<< "ex_put_set_param", "ex_put_set" >>, row.nsets + row.ssets)
    \o Repeat(<< "ex_put_variable_param", "ex_put_variable_names" >>,
              (IF row.glo > 0 THEN 1 ELSE 0) + (IF row.nod > 0 THEN 1 ELSE 0))
    \o Repeat(<< "ex_put_time" >>
              \o Repeat(<< "ex_put_var" >>, row.glo + row.nod),
              row.steps)
    \o << "ex_put_qa", "ex_close" >>

\* what ExpectedOps gives for each scenario of the table
ExpectedOpsOf ==
    [ scenario \in DOMAIN ScenarioTable |->
        ExpectedOps(ScenarioTable[scenario]) ]

\* the names of the operations of the calls q, in order
OpNamesOf(q) == [i \in DOMAIN q |-> q[i].op]

\* the confirmation messages on the output stream
Confirmations ==
    LET created == Creates
        lines   == { "Generated: " \o created[i].a.path \o "\n" :
                       i \in DOMAIN created }
    IN  SelectSeq(out, LAMBDA m : m \in lines)

(***************************************************************************)
(* C11: the results of the library calls other than ex_create never gate   *)
(* execution: whichever of them fail, a scenario issues its complete call  *)
(* sequence in the same order, calls close exactly once, confirms the file *)
(* after close, the run is never stopped by a failed call and the process  *)
(* exits with code 0.                                                      *)
(***************************************************************************)
C11_NoGating ==
    /\ \A e \in Files :
          LET q        == CallsOf(e)
              expected == ExpectedOpsOf[ScenarioOf(q)]
              names    == OpNamesOf(q)
              closes   == Len(Ops(q, "ex_close"))
          IN  /\ Len(names) <= Len(expected)
              /\ names = SubSeq(expected, 1, Len(names))
              /\ closes <= 1
              /\ Returned(e) =>
                    /\ names = expected
                    /\ closes = 1
              /\ (pc = "exited" /\ exitCode = 0) \/ e # exoid => Returned(e)
    /\ Len(Confirmations) = Cardinality({ e \in Files : Returned(e) })
    /\ pc # "exited" => exitCode = -1 /\ ENABLED Next
    /\ pc = "exited" /\ ~CreateFailure /\ ~MissingArgument
          /\ ~UnrecognizedName
          => /\ exitCode = 0
             /\ Files # {}
             /\ Len(Confirmations) = Len(Creates)

\* "all" has ended with code 0 although every call on its last file, close
\* included, has failed
C11_Witness ==
    /\ pc = "exited"
    /\ exitCode = 0
    /\ Len(argv) >= 2
    /\ argv[2] = "all"
    /\ Len(Confirmations) = 7
    /\ allFailed
    /\ failed
    /\ error < 0

====
